---- MODULE Spec2Model ----
(***************************************************************************)
(* The clinic queue server (src/server.js): the tokens table, the          *)
(* admission / eviction controller and the HTTP handlers that drive it,    *)
(* each handler running one PostgreSQL transaction on its own pool client. *)
(*                                                                         *)
(* Storage semantics.  The handlers issue a bare BEGIN, so a transaction   *)
(* runs at PostgreSQL's default READ COMMITTED level: every statement sees *)
(* the rows committed when it starts plus the transaction's own writes;    *)
(* SELECT ... FOR UPDATE and UPDATE take the row's lock and wait for a     *)
(* holder to end, then act on the row's latest version; NOW() is the       *)
(* transaction's start time; the uncorrelated sub-select of the eviction   *)
(* UPDATE is evaluated once, on the statement's snapshot.                  *)
(*                                                                         *)
(* Also the load tester's request pump (src/unnamed/part_000) and the      *)
(* staff variant's requireStaff middleware (src/server.js), each under a   *)
(* specification of its own.                                               *)
(***************************************************************************)
EXTENDS Integers, Sequences, FiniteSets, TLC

\* ------------------------------------------------------------------ bounds
MaxId == 3          \* ids the sequence may hand out
NClients == 2       \* pool clients, i.e. requests in flight at once
MaxOps == 3         \* requests begun in one behaviour
MaxCapacity == 2    \* MAX_ALLOWED ranges over 1..MaxCapacity
MaxRequests == 3    \* the load tester's --requests ranges over 0..MaxRequests
MaxConcurrency == 2 \* the load tester's --concurrency ranges over 0..MaxConcurrency
MaxCredLen == 3     \* characters in the user:pass string a client encodes

Ids == 1..MaxId
Clients == 1..NClients

\* ------------------------------------------------------------------ values
Null == 0           \* SQL NULL in a timestamp column

Digits == <<"0", "1", "2", "3", "4", "5", "6", "7", "8", "9">>

RECURSIVE Decimal(_)
Decimal(n) ==
  IF n < 10 THEN <<Digits[n + 1]>>
  ELSE Decimal(n \div 10) \o <<Digits[(n % 10) + 1]>>

formatTokenNoId(id) == <<"T">>

\* `T${id}`
formatToken(id) == <<"T">> \o Decimal(id)

RECURSIVE TrimLeft(_)
TrimLeft(s) ==
  IF s # <<>> /\ Head(s) = " " THEN TrimLeft(Tail(s)) ELSE s

RECURSIVE TrimRight(_)
TrimRight(s) ==
  IF s # <<>> /\ s[Len(s)] = " " THEN TrimRight(SubSeq(s, 1, Len(s) - 1)) ELSE s

UpperChar(c) == IF c = "t" THEN "T" ELSE c

\* token.trim().toUpperCase()
normalizeToken(s) ==
  LET t == TrimRight(TrimLeft(s)) IN [i \in 1..Len(t) |-> UpperChar(t[i])]

\* A row of the tokens table; status "none" marks an id with no row.
NoRow == [id |-> 0, token |-> <<>>, status |-> "none",
          admitted_at |-> Null, finished_at |-> Null]
\* No uncommitted version of the row in a transaction's write set.
NoWrite == [id |-> 0, token |-> <<>>, status |-> "unwritten",
            admitted_at |-> Null, finished_at |-> Null]

NewRow(i) == [id |-> i, token |-> formatToken(i), status |-> "waiting",
              admitted_at |-> Null, finished_at |-> Null]

\* ------------------------------------------------------------------ state
VARIABLES
  MAX_ALLOWED,  \* the configured capacity, fixed for a behaviour
  tokens,       \* committed tokens table: id -> row
  seq,          \* the id sequence: [last, called]
  advLock,      \* holder of advisory lock (42, 0), 0 when free
  rowLock,      \* id -> client holding the row's lock, 0 when free
  clock,        \* wall clock, one tick per request
  pc,           \* client -> position in its handler
  req,          \* client -> the request it serves
  now,          \* client -> NOW() of its transaction
  wr,           \* client -> id -> uncommitted row version
  lv,           \* client -> the handler's local variables
  resp,         \* client -> the response sent for its last request
  emitted,      \* client -> io.emit calls of its last request, in order
  alone,        \* client -> no other transaction has run beside its own (observer)
  hist,         \* completed requests, in order (observer, serial runs only)
  issued,       \* setval / nextval calls, in order (observer, check-in runs only)
  load,         \* the load tester's runLoadTest: its options, counters and position
  staff         \* the staff variant's requireStaff: configuration, request, outcome

vars == <<MAX_ALLOWED, tokens, seq, advLock, rowLock, clock, pc, req, now, wr,
          lv, resp, emitted, alone, hist, issued, load, staff>>

\* What client t's next statement sees.
View(t) == [i \in Ids |-> IF wr[t][i] # NoWrite THEN wr[t][i] ELSE tokens[i]]

AllowedIds(view) == {i \in Ids : view[i].status = "allowed"}
WaitingIds(view) == {i \in Ids : view[i].status = "waiting"}

\* SELECT COUNT(*) FROM tokens WHERE status = 'allowed'
AllowedCount(view) == Cardinality(AllowedIds(view))

BeforeById(a, b) == a.id < b.id

\* ORDER BY admitted_at ASC NULLS FIRST, id ASC
Before(a, b) ==
  IF a.admitted_at = b.admitted_at THEN a.id < b.id
  ELSE IF a.admitted_at = Null THEN TRUE
  ELSE IF b.admitted_at = Null THEN FALSE
  ELSE a.admitted_at < b.admitted_at

RECURSIVE SortRows(_, _)
SortRows(view, S) ==
  IF S = {} THEN <<>>
  ELSE LET m == CHOOSE i \in S : \A j \in S \ {i} : Before(view[i], view[j])
       IN <<view[m]>> \o SortRows(view, S \ {m})

Take(s, n) == SubSeq(s, 1, IF Len(s) < n THEN Len(s) ELSE n)

\* SELECT * FROM tokens WHERE status = 'allowed' ORDER BY ... LIMIT MAX_ALLOWED
getAllowedPatients(view) == Take(SortRows(view, AllowedIds(view)), MAX_ALLOWED)

OldestAllowedNewest(view) ==
  LET S == AllowedIds(view)
  IN CHOOSE i \in S :
       \A j \in S : j = i \/ view[j].admitted_at < view[i].admitted_at
                          \/ (view[j].admitted_at = view[i].admitted_at /\ j < i)

OldestAllowedById(view) ==
  LET S == AllowedIds(view) IN CHOOSE i \in S : \A j \in S : i <= j

\* The sub-select of the eviction UPDATE: the oldest allowed row's id.
OldestAllowed(view) ==
  LET S == AllowedIds(view)
  IN CHOOSE i \in S :
       \A j \in S :
         \/ j = i
         \/ view[i].admitted_at = Null /\ view[j].admitted_at # Null
         \/ view[i].admitted_at # Null /\ view[j].admitted_at # Null
              /\ view[i].admitted_at < view[j].admitted_at
         \/ view[i].admitted_at = view[j].admitted_at /\ i < j

\* Rows of the view whose token column equals tok.
Matching(view, tok) == {i \in Ids : view[i].status # "none" /\ view[i].token = tok}


\* ------------------------------------------------------------------ requests
NotInt == <<>>      \* a body field that is absent or not an integer; <<n>> is integer n

DefaultBatch == 5

\* Number.isInteger(count) ? count : Number.isInteger(num) ? num : 5
Requested(r) ==
  IF r.count # NotInt THEN r.count[1]
  ELSE IF r.num # NotInt THEN r.num[1]
  ELSE DefaultBatch

\* Tokens as callers send them: " t1 ", which needs trimming and upper-casing, and
\* Tn for every other id and for one id past the last.
RawTokens ==
  {<<" ", "t">> \o Decimal(1) \o <<" ">>} \cup {formatToken(i) : i \in 2..(MaxId + 1)}

NoToken == <<>>

AdmitRequests == {[kind |-> "admit", token |-> k, count |-> NotInt, num |-> NotInt] :
                    k \in RawTokens}
RemoveRequests == {[kind |-> "remove", token |-> k, count |-> NotInt, num |-> NotInt] :
                     k \in RawTokens}
NextRequests == {[kind |-> "next", token |-> NoToken, count |-> cn[1], num |-> cn[2]] :
                   cn \in {<<NotInt, NotInt>>, <<(<<1>>), NotInt>>, <<(<<2>>), (<<-1>>)>>,
                           <<(<<0>>), (<<2>>)>>, <<NotInt, (<<-1>>)>>}}
CheckinRequests == {[kind |-> "checkin", token |-> NoToken, count |-> NotInt, num |-> NotInt]}

NoRequest == [kind |-> "none", token |-> NoToken, count |-> NotInt, num |-> NotInt]

RejectedNegativeOnly(requested) == requested < 0

\* if (requested <= 0) return res.status(400)
Rejected(requested) == requested <= 0

\* ------------------------------------------------------------------ handler locals
LvInit == [tok |-> <<>>, patient |-> 0, seen |-> "unset", tokensFinished |-> <<>>,
           slotsNeeded |-> 0, target |-> 0, batch |-> <<>>, promoted |-> <<>>,
           finishedTokens |-> <<>>, wasAllowed |-> FALSE, allowed |-> <<>>,
           initialCount |-> 0, nextId |-> 0]

\* rolledBack is the observer's: how many uncommitted row versions a ROLLBACK dropped.
NoResp == [code |-> 0, patient |-> NoRow, admitted |-> 0, message |-> "",
           rolledBack |-> 0]

Pending(t) == Cardinality({i \in Ids : wr[t][i] # NoWrite})

Event(name, tok, rows) == [ev |-> name, token |-> tok, rows |-> rows]

RECURSIVE FinishedEvents(_)
FinishedEvents(toks) ==
  IF toks = <<>> THEN <<>>
  ELSE <<Event("patient-finished", Head(toks), <<>>)>> \o FinishedEvents(Tail(toks))

NoWrites == [i \in Ids |-> NoWrite]

\* The store's part of COMMIT / ROLLBACK: the client's locks are released.
Release(t) ==
  /\ rowLock' = [i \in Ids |-> IF rowLock[i] = t THEN 0 ELSE rowLock[i]]
  /\ advLock' = IF advLock = t THEN 0 ELSE advLock
  /\ wr' = [wr EXCEPT ![t] = NoWrites]

RollbackKeepsWrites(t) ==
  /\ Release(t)
  /\ tokens' = View(t)

\* ROLLBACK: the write set is dropped.
Rollback(t) ==
  /\ Release(t)
  /\ tokens' = tokens

\* COMMIT: the write set becomes the committed version of its rows.
CommitWrites(t) ==
  /\ Release(t)
  /\ tokens' = View(t)

\* The handler's code from the resolved COMMIT or ROLLBACK to its return is one
\* synchronous run of the event loop: no other handler's code runs inside it.
Settled == \A u \in Clients : pc[u] # "done"

\* Client t's handler is at position p and the event loop is free to run it.
At(t, p) == Settled /\ pc[t] = p

\* pool.connect() hands out the first idle client.
FirstIdle(t) == pc[t] = "idle" /\ \A u \in Clients : u < t => pc[u] # "idle"

\* ------------------------------------------------------------------ initial state
\* A store holding k rows left waiting by k earlier check-ins.
InitStore(k) ==
  /\ tokens = [i \in Ids |-> IF i <= k THEN NewRow(i) ELSE NoRow]
  /\ seq = IF k = 0 THEN [last |-> 1, called |-> FALSE] ELSE [last |-> k, called |-> TRUE]

InitServer ==
  /\ MAX_ALLOWED \in 1..MaxCapacity
  /\ \E k \in 0..MaxId : InitStore(k)
  /\ advLock = 0
  /\ rowLock = [i \in Ids |-> 0]
  /\ clock = 1
  /\ pc = [t \in Clients |-> "idle"]
  /\ req = [t \in Clients |-> NoRequest]
  /\ now = [t \in Clients |-> 0]
  /\ wr = [t \in Clients |-> NoWrites]
  /\ lv = [t \in Clients |-> LvInit]
  /\ resp = [t \in Clients |-> NoResp]
  /\ emitted = [t \in Clients |-> <<>>]
  /\ alone = [t \in Clients |-> TRUE]
  /\ hist = <<>>
  /\ issued = <<>>

\* The load tester has not been started and no staff request has arrived.
NoLoad == [mode |-> "off"]

NoStaff == [status |-> 0]

Init == InitServer /\ load = NoLoad /\ staff = NoStaff

\* ------------------------------------------------------------------ BEGIN
FirstPc(r) ==
  CASE r.kind = "admit" -> "spa_select"
    [] r.kind = "remove" -> "rm_select"
    [] r.kind = "next" -> "nx_select"
    [] r.kind = "checkin" -> "ci_count"

\* pool.connect(); BEGIN
Begin(t, r) ==
  /\ At(t, "idle") /\ FirstIdle(t)
  /\ clock <= MaxOps
  /\ r.kind = "next" => ~Rejected(Requested(r))
  /\ pc' = [pc EXCEPT ![t] = FirstPc(r)]
  /\ req' = [req EXCEPT ![t] = r]
  /\ now' = [now EXCEPT ![t] = clock]
  /\ clock' = clock + 1
  /\ lv' = [lv EXCEPT ![t] = LvInit]
  /\ resp' = [resp EXCEPT ![t] = NoResp]
  /\ emitted' = [emitted EXCEPT ![t] = <<>>]
  /\ alone' = [u \in Clients |->
                 IF u = t THEN \A v \in Clients \ {t} : pc[v] = "idle"
                 ELSE IF pc[u] # "idle" THEN FALSE ELSE alone[u]]
  /\ UNCHANGED <<hist, issued, load, staff, MAX_ALLOWED, tokens, seq, advLock, rowLock, wr>>

\* POST /api/next with requested <= 0: 400 before any transaction.
NextRejected(t, r) ==
  /\ At(t, "idle") /\ FirstIdle(t)
  /\ clock <= MaxOps
  /\ r.kind = "next" /\ Rejected(Requested(r))
  /\ req' = [req EXCEPT ![t] = r]
  /\ lv' = [lv EXCEPT ![t] = LvInit]
  /\ resp' = [resp EXCEPT ![t] = [NoResp EXCEPT !.code = 400]]
  /\ emitted' = [emitted EXCEPT ![t] = <<>>]
  /\ clock' = clock + 1
  /\ pc' = [pc EXCEPT ![t] = "done"]
  /\ UNCHANGED <<hist, issued, load, staff, alone, MAX_ALLOWED, tokens, seq, advLock, rowLock, now, wr>>


\* ------------------------------------------------------------------ setPatientAllowed
\* The token setPatientAllowed is called with.
SpaToken(t) == IF req[t].kind = "admit" THEN req[t].token ELSE Head(lv[t].batch)

\* The caller's code after `await setPatientAllowed(...)` returned notFound, found
\* the row allowed, or promoted it: the next position and the locals.
\* /api/admit goes on to ROLLBACK + 404, or to the snapshot.  /api/next pushes the
\* patient and spreads tokensFinished, which is undefined in a notFound result:
\* the spread throws and the handler's catch runs.
SpaReturn(t, l, notFound, patientId, tf) ==
  IF req[t].kind = "admit"
  THEN /\ pc' = [pc EXCEPT ![t] = IF notFound THEN "notfound" ELSE "snapshot"]
       /\ lv' = [lv EXCEPT ![t] = [l EXCEPT !.patient = patientId, !.tokensFinished = tf]]
  ELSE IF notFound
       THEN /\ pc' = [pc EXCEPT ![t] = "catch"]
            /\ lv' = [lv EXCEPT ![t] = l]
       ELSE LET rest == Tail(l.batch)
            IN /\ pc' = [pc EXCEPT ![t] = IF rest = <<>> THEN "snapshot" ELSE "spa_select"]
               /\ lv' = [lv EXCEPT ![t] =
                           [l EXCEPT !.patient = patientId,
                                     !.tokensFinished = tf,
                                     !.promoted = Append(l.promoted, patientId),
                                     !.finishedTokens = l.finishedTokens \o tf,
                                     !.batch = rest]]

SpaOutcomeDoneRevived(st) ==
  IF st = "allowed" THEN "idempotent" ELSE "promote"

SpaOutcomeAlwaysPromote(st) ==
  IF st = "done" THEN "notFound" ELSE "promote"

\* if (patient.status === 'done') ...; if (patient.status === 'allowed') ...
SpaOutcome(st) ==
  CASE st = "done" -> "notFound"
    [] st = "allowed" -> "idempotent"
    [] OTHER -> "promote"

SpaSelectNoRowLock(t) ==
  /\ At(t, "spa_select")
  /\ LET tok == normalizeToken(SpaToken(t))
         m == Matching(View(t), tok)
         l == [lv[t] EXCEPT !.tok = tok]
     IN IF m = {}
        THEN /\ SpaReturn(t, [l EXCEPT !.seen = "none"], TRUE, 0, <<>>)
             /\ UNCHANGED rowLock
        ELSE LET i == CHOOSE j \in m : TRUE
                 st == View(t)[i].status
                 l2 == [l EXCEPT !.seen = st, !.patient = i]
             IN /\ UNCHANGED rowLock
                /\ CASE SpaOutcome(st) = "notFound" -> SpaReturn(t, l2, TRUE, 0, <<>>)
                     [] SpaOutcome(st) = "idempotent" -> SpaReturn(t, l2, FALSE, i, <<>>)
                     [] OTHER ->
                          /\ pc' = [pc EXCEPT ![t] = "mr_count"]
                          /\ lv' = [lv EXCEPT ![t] =
                                      [l2 EXCEPT !.slotsNeeded = 1, !.tokensFinished = <<>>]]
  /\ UNCHANGED <<hist, issued, load, staff, alone, MAX_ALLOWED, tokens, seq, advLock, clock, req, now, wr, resp, emitted>>

\* SELECT * FROM tokens WHERE token = $1 FOR UPDATE, and the three status checks.
\* The statement waits while another transaction holds the row's lock.
SpaSelect(t) ==
  /\ At(t, "spa_select")
  /\ LET tok == normalizeToken(SpaToken(t))
         m == Matching(View(t), tok)
         l == [lv[t] EXCEPT !.tok = tok]
     IN IF m = {}
        THEN /\ SpaReturn(t, [l EXCEPT !.seen = "none"], TRUE, 0, <<>>)
             /\ UNCHANGED rowLock
        ELSE LET i == CHOOSE j \in m : TRUE
                 st == View(t)[i].status
                 l2 == [l EXCEPT !.seen = st, !.patient = i]
             IN /\ rowLock[i] \in {0, t}
                /\ rowLock' = [rowLock EXCEPT ![i] = t]
                /\ CASE SpaOutcome(st) = "notFound" -> SpaReturn(t, l2, TRUE, 0, <<>>)
                     [] SpaOutcome(st) = "idempotent" -> SpaReturn(t, l2, FALSE, i, <<>>)
                     [] OTHER ->
                          /\ pc' = [pc EXCEPT ![t] = "mr_count"]
                          /\ lv' = [lv EXCEPT ![t] =
                                      [l2 EXCEPT !.slotsNeeded = 1, !.tokensFinished = <<>>]]
  /\ UNCHANGED <<hist, issued, load, staff, alone, MAX_ALLOWED, tokens, seq, advLock, clock, req, now, wr, resp, emitted>>

HasRoomOffByOne(view) == AllowedCount(view) <= MAX_ALLOWED

HasRoomOnlyWhenEmpty(view) == AllowedCount(view) = 0

\* if (allowedCount < MAX_ALLOWED) break;
HasRoom(view) == AllowedCount(view) < MAX_ALLOWED

\* makeRoomFor: SELECT COUNT(*) ... WHERE status = 'allowed', and the break.
MakeRoomCount(t) ==
  /\ At(t, "mr_count")
  /\ pc' = [pc EXCEPT ![t] = IF HasRoom(View(t)) THEN "spa_update" ELSE "mr_evict"]
  /\ UNCHANGED <<hist, issued, load, staff, alone, MAX_ALLOWED, tokens, seq, advLock, rowLock, clock, req, now, wr, lv,
                 resp, emitted>>

\* The eviction UPDATE's effect on row i, and the loop's bookkeeping after it.
EvictRow(t, i) ==
  LET cur == View(t)[i]
      n == lv[t].slotsNeeded - 1
  IN /\ wr' = [wr EXCEPT ![t][i] = [cur EXCEPT !.status = "done", !.finished_at = now[t]]]
     /\ rowLock' = [rowLock EXCEPT ![i] = t]
     /\ lv' = [lv EXCEPT ![t].tokensFinished = Append(@, cur.token),
                         ![t].slotsNeeded = n,
                         ![t].target = 0]
     /\ pc' = [pc EXCEPT ![t] = IF n > 0 THEN "mr_count" ELSE "spa_update"]

\* makeRoomFor: UPDATE tokens SET status = 'done' ... WHERE id = (oldest allowed),
\* when there is no such row or its lock is free.
MakeRoomEvict(t) ==
  /\ At(t, "mr_evict")
  /\ IF AllowedIds(View(t)) = {}
     THEN /\ pc' = [pc EXCEPT ![t] = "spa_update"]
          /\ UNCHANGED <<wr, rowLock, lv>>
     ELSE LET i == OldestAllowed(View(t))
          IN /\ rowLock[i] \in {0, t}
             /\ EvictRow(t, i)
  /\ UNCHANGED <<hist, issued, load, staff, alone, MAX_ALLOWED, tokens, seq, advLock, clock, req, now, resp, emitted>>

\* The same UPDATE when another transaction holds the chosen row's lock: the
\* sub-select has run on this statement's snapshot, and the statement waits.
MakeRoomEvictBlocked(t) ==
  /\ At(t, "mr_evict")
  /\ AllowedIds(View(t)) # {}
  /\ LET i == OldestAllowed(View(t))
     IN /\ rowLock[i] \notin {0, t}
        /\ lv' = [lv EXCEPT ![t].target = i]
  /\ pc' = [pc EXCEPT ![t] = "mr_wait"]
  /\ UNCHANGED <<hist, issued, load, staff, alone, MAX_ALLOWED, tokens, seq, advLock, rowLock, clock, req, now, wr,
                 resp, emitted>>

\* The holder ended: the UPDATE re-checks `id = $0` on the row's latest version,
\* which holds whatever the holder did to the row, and updates it.
MakeRoomEvictResume(t) ==
  /\ At(t, "mr_wait")
  /\ rowLock[lv[t].target] = 0
  /\ EvictRow(t, lv[t].target)
  /\ UNCHANGED <<hist, issued, load, staff, alone, MAX_ALLOWED, tokens, seq, advLock, clock, req, now, resp, emitted>>

\* UPDATE tokens SET status = 'allowed', admitted_at = NOW() WHERE id = $1
SpaUpdate(t) ==
  /\ At(t, "spa_update")
  /\ LET i == lv[t].patient
         cur == View(t)[i]
     IN /\ wr' = [wr EXCEPT ![t][i] =
                    [cur EXCEPT !.status = "allowed", !.admitted_at = now[t]]]
        /\ SpaReturn(t, lv[t], FALSE, i, lv[t].tokensFinished)
  /\ UNCHANGED <<hist, issued, load, staff, alone, MAX_ALLOWED, tokens, seq, advLock, rowLock, clock, req, now, resp,
                 emitted>>

\* ------------------------------------------------------------------ endings
\* /api/admit, /api/remove: ROLLBACK and 404 after notFound.
NotFoundRollback(t) ==
  /\ At(t, "notfound")
  /\ Rollback(t)
  /\ pc' = [pc EXCEPT ![t] = "done"]
  /\ resp' = [resp EXCEPT ![t] = [NoResp EXCEPT !.code = 404]]
  /\ UNCHANGED <<hist, issued, load, staff, alone, MAX_ALLOWED, seq, clock, req, now, lv, emitted>>

\* const allowed = await getAllowedPatients(client)
Snapshot(t) ==
  /\ At(t, "snapshot")
  /\ lv' = [lv EXCEPT ![t].allowed = getAllowedPatients(View(t))]
  /\ pc' = [pc EXCEPT ![t] = "commit"]
  /\ UNCHANGED <<hist, issued, load, staff, alone, MAX_ALLOWED, tokens, seq, advLock, rowLock, clock, req, now, wr, resp,
                 emitted>>

\* The io.emit calls the handler makes once COMMIT returned, in order.
Events(t) ==
  LET l == lv[t]
      upd == <<Event("allowed-update", <<>>, l.allowed)>>
  IN CASE req[t].kind = "admit" -> FinishedEvents(l.tokensFinished) \o upd
       [] req[t].kind = "remove" ->
            IF l.wasAllowed
            THEN <<Event("patient-finished", l.tok, <<>>)>> \o upd
            ELSE <<>>
       [] req[t].kind = "next" -> FinishedEvents(l.finishedTokens) \o upd
       [] req[t].kind = "checkin" -> <<Event("new-patient", <<>>, <<View(t)[l.nextId]>>)>>

\* What the handler emits and answers once COMMIT returned.
AfterCommit(t) ==
  LET l == lv[t]
  IN /\ emitted' = [emitted EXCEPT ![t] = Events(t)]
     /\ CASE req[t].kind = "admit" ->
               resp' = [resp EXCEPT ![t] =
                          [NoResp EXCEPT !.code = 200, !.patient = View(t)[l.patient]]]
          [] req[t].kind = "remove" ->
               resp' = [resp EXCEPT ![t] = [NoResp EXCEPT !.code = 200]]
          [] req[t].kind = "next" ->
               resp' = [resp EXCEPT ![t] =
                          [NoResp EXCEPT !.code = 200, !.admitted = Len(l.promoted)]]
          [] req[t].kind = "checkin" ->
               resp' = [resp EXCEPT ![t] =
                          [NoResp EXCEPT !.code = 200, !.patient = View(t)[l.nextId]]]

\* COMMIT, then the emits and the response.
Commit(t) ==
  /\ At(t, "commit")
  /\ CommitWrites(t)
  /\ AfterCommit(t)
  /\ pc' = [pc EXCEPT ![t] = "done"]
  /\ UNCHANGED <<hist, issued, load, staff, alone, MAX_ALLOWED, seq, clock, req, now, lv>>

\* COMMIT returned and one of the io.emit calls throws, after k of them were made:
\* the handler's catch is entered with the transaction already committed.
CommitEmitFails(t) ==
  /\ At(t, "commit")
  /\ CommitWrites(t)
  /\ \E k \in 0..(Len(Events(t)) - 1) :
       emitted' = [emitted EXCEPT ![t] = SubSeq(Events(t), 1, k)]
  /\ pc' = [pc EXCEPT ![t] = "emit_catch"]
  /\ UNCHANGED <<hist, issued, load, staff, alone, MAX_ALLOWED, seq, clock, req, now, lv, resp>>

\* The catch after it: ROLLBACK with no transaction open, then 500.
EmitCatch(t) ==
  /\ At(t, "emit_catch")
  /\ Rollback(t)
  /\ pc' = [pc EXCEPT ![t] = "done"]
  /\ resp' = [resp EXCEPT ![t] = [NoResp EXCEPT !.code = 500, !.rolledBack = Pending(t)]]
  /\ UNCHANGED <<hist, issued, load, staff, alone, MAX_ALLOWED, seq, clock, req, now, lv, emitted>>

StatementFailsAfterEmit(t) ==
  /\ Settled
  /\ pc[t] \notin {"idle", "done", "catch", "notfound", "nx_empty", "emit_catch"}
  /\ Rollback(t)
  /\ pc' = [pc EXCEPT ![t] = "done"]
  /\ resp' = [resp EXCEPT ![t] = [NoResp EXCEPT !.code = 500, !.rolledBack = Pending(t)]]
  /\ lv' = [lv EXCEPT ![t] = LvInit]
  /\ emitted' = [emitted EXCEPT ![t] = IF pc[t] = "commit" THEN Events(t) ELSE <<>>]
  /\ UNCHANGED <<hist, issued, load, staff, alone, MAX_ALLOWED, seq, clock, req, now>>

\* A statement of the transaction throws (a storage failure), and the handler's
\* catch runs: ROLLBACK, then 500.  Until the ROLLBACK the failed transaction still
\* holds its locks, so to the other clients the two steps are one.
StatementFails(t) ==
  /\ Settled
  /\ pc[t] \notin {"idle", "done", "catch", "notfound", "nx_empty", "emit_catch"}
  /\ Rollback(t)
  /\ pc' = [pc EXCEPT ![t] = "done"]
  /\ resp' = [resp EXCEPT ![t] = [NoResp EXCEPT !.code = 500, !.rolledBack = Pending(t)]]
  /\ lv' = [lv EXCEPT ![t] = LvInit]
  /\ UNCHANGED <<hist, issued, load, staff, alone, MAX_ALLOWED, seq, clock, req, now, emitted>>

\* catch (error) { ROLLBACK; res.status(500) }
Catch(t) ==
  /\ At(t, "catch")
  /\ Rollback(t)
  /\ pc' = [pc EXCEPT ![t] = "done"]
  /\ resp' = [resp EXCEPT ![t] = [NoResp EXCEPT !.code = 500, !.rolledBack = Pending(t)]]
  /\ lv' = [lv EXCEPT ![t] = LvInit]
  /\ UNCHANGED <<hist, issued, load, staff, alone, MAX_ALLOWED, seq, clock, req, now, emitted>>


\* ------------------------------------------------------------------ POST /api/remove/:token
RemoveSelectAlwaysWasAllowed(t) ==
  /\ At(t, "rm_select")
  /\ LET tok == normalizeToken(req[t].token)
         m == Matching(View(t), tok)
     IN IF m = {}
        THEN /\ pc' = [pc EXCEPT ![t] = "notfound"]
             /\ lv' = [lv EXCEPT ![t].tok = tok, ![t].seen = "none"]
             /\ UNCHANGED rowLock
        ELSE LET i == CHOOSE j \in m : TRUE
                 st == View(t)[i].status
             IN /\ rowLock[i] \in {0, t}
                /\ rowLock' = [rowLock EXCEPT ![i] = t]
                /\ lv' = [lv EXCEPT ![t].tok = tok, ![t].seen = st, ![t].patient = i,
                                    ![t].wasAllowed = TRUE]
                /\ pc' = [pc EXCEPT ![t] = "rm_update"]
  /\ UNCHANGED <<hist, issued, load, staff, alone, MAX_ALLOWED, tokens, seq, advLock, clock, req, now, wr, resp,
                 emitted>>

\* SELECT status FROM tokens WHERE token = $1 FOR UPDATE, and the 404 test.
RemoveSelect(t) ==
  /\ At(t, "rm_select")
  /\ LET tok == normalizeToken(req[t].token)
         m == Matching(View(t), tok)
     IN IF m = {}
        THEN /\ pc' = [pc EXCEPT ![t] = "notfound"]
             /\ lv' = [lv EXCEPT ![t].tok = tok, ![t].seen = "none"]
             /\ UNCHANGED rowLock
        ELSE LET i == CHOOSE j \in m : TRUE
                 st == View(t)[i].status
             IN /\ rowLock[i] \in {0, t}
                /\ rowLock' = [rowLock EXCEPT ![i] = t]
                /\ lv' = [lv EXCEPT ![t].tok = tok, ![t].seen = st, ![t].patient = i,
                                    ![t].wasAllowed = (st = "allowed")]
                /\ pc' = [pc EXCEPT ![t] = "rm_update"]
  /\ UNCHANGED <<hist, issued, load, staff, alone, MAX_ALLOWED, tokens, seq, advLock, clock, req, now, wr, resp, emitted>>

RemoveUpdateEveryRow(t) ==
  /\ At(t, "rm_update")
  /\ wr' = [wr EXCEPT ![t] =
              [i \in Ids |->
                 IF View(t)[i].status # "none"
                 THEN [View(t)[i] EXCEPT !.status = "done", !.finished_at = now[t]]
                 ELSE wr[t][i]]]
  /\ pc' = [pc EXCEPT ![t] = "snapshot"]
  /\ UNCHANGED <<hist, issued, load, staff, alone, MAX_ALLOWED, tokens, seq, advLock, rowLock, clock, req, now,
                 lv, resp, emitted>>

\* UPDATE tokens SET status = 'done', finished_at = NOW() WHERE token = $1
RemoveUpdate(t) ==
  /\ At(t, "rm_update")
  /\ wr' = [wr EXCEPT ![t] =
              [i \in Ids |->
                 IF i \in Matching(View(t), lv[t].tok)
                 THEN [View(t)[i] EXCEPT !.status = "done", !.finished_at = now[t]]
                 ELSE wr[t][i]]]
  /\ pc' = [pc EXCEPT ![t] = "snapshot"]
  /\ UNCHANGED <<hist, issued, load, staff, alone, MAX_ALLOWED, tokens, seq, advLock, rowLock, clock, req, now, lv, resp,
                 emitted>>

\* ------------------------------------------------------------------ POST /api/next
RECURSIVE AscendingIds(_)
AscendingIds(S) ==
  IF S = {} THEN <<>>
  ELSE LET m == CHOOSE i \in S : \A j \in S : i <= j
       IN <<m>> \o AscendingIds(S \ {m})

WaitingTokensNoLimit(view, n) ==
  LET ids == AscendingIds(WaitingIds(view))
  IN [k \in 1..Len(ids) |-> view[ids[k]].token]

\* SELECT token FROM tokens WHERE status = 'waiting' ORDER BY id ASC LIMIT $1
WaitingTokens(view, n) ==
  LET ids == Take(AscendingIds(WaitingIds(view)), n)
  IN [k \in 1..Len(ids) |-> view[ids[k]].token]

NextSelect(t) ==
  /\ At(t, "nx_select")
  /\ LET rows == WaitingTokens(View(t), Requested(req[t]))
     IN /\ lv' = [lv EXCEPT ![t].batch = rows]
        /\ pc' = [pc EXCEPT ![t] = IF rows = <<>> THEN "nx_empty" ELSE "spa_select"]
  /\ UNCHANGED <<hist, issued, load, staff, alone, MAX_ALLOWED, tokens, seq, advLock, rowLock, clock, req, now, wr, resp,
                 emitted>>

\* ROLLBACK; res.json({ success: true, message: 'No waiting patients' })
NextEmpty(t) ==
  /\ At(t, "nx_empty")
  /\ Rollback(t)
  /\ pc' = [pc EXCEPT ![t] = "done"]
  /\ resp' = [resp EXCEPT ![t] =
                [NoResp EXCEPT !.code = 200, !.message = "No waiting patients"]]
  /\ UNCHANGED <<hist, issued, load, staff, alone, MAX_ALLOWED, seq, clock, req, now, lv, emitted>>

\* ------------------------------------------------------------------ POST /api/checkin
\* SELECT COUNT(*) FROM tokens
RowCount(view) == Cardinality({i \in Ids : view[i].status # "none"})

\* What nextval would return.
NextVal(s) == IF s.called THEN s.last + 1 ELSE s.last

\* nextIdentity: the first count.
CheckinCount(t) ==
  /\ At(t, "ci_count")
  /\ LET c == RowCount(View(t))
     IN /\ lv' = [lv EXCEPT ![t].initialCount = c]
        /\ pc' = [pc EXCEPT ![t] = IF c = 0 THEN "ci_advlock" ELSE "ci_nextval"]
  /\ UNCHANGED <<hist, issued, load, staff, alone, MAX_ALLOWED, tokens, seq, advLock, rowLock, clock, req, now, wr, resp,
                 emitted>>

\* SELECT pg_advisory_xact_lock(42, 0): waits while another transaction holds it.
CheckinAdvisoryLock(t) ==
  /\ At(t, "ci_advlock")
  /\ advLock \in {0, t}
  /\ advLock' = t
  /\ pc' = [pc EXCEPT ![t] = "ci_confirm"]
  /\ UNCHANGED <<hist, issued, load, staff, alone, MAX_ALLOWED, tokens, seq, rowLock, clock, req, now, wr, lv, resp,
                 emitted>>

\* The confirming count under the lock.
CheckinConfirm(t) ==
  /\ At(t, "ci_confirm")
  /\ pc' = [pc EXCEPT ![t] = IF RowCount(View(t)) = 0 THEN "ci_setval" ELSE "ci_nextval"]
  /\ UNCHANGED <<hist, issued, load, staff, alone, MAX_ALLOWED, tokens, seq, advLock, rowLock, clock, req, now, wr, lv,
                 resp, emitted>>

\* SELECT setval(seq, 1, false)
Setval(t) ==
  /\ At(t, "ci_setval")
  /\ seq' = [last |-> 1, called |-> FALSE]
  /\ pc' = [pc EXCEPT ![t] = "ci_nextval"]
  /\ UNCHANGED <<hist, load, staff, alone, MAX_ALLOWED, tokens, advLock, rowLock, clock, req, now, wr, lv, resp,
                 emitted>>

CheckinSetval(t) == Setval(t) /\ UNCHANGED issued

\* SELECT nextval(seq): the sequence is not transactional.
Nextval(t) ==
  /\ At(t, "ci_nextval")
  /\ NextVal(seq) <= MaxId
  /\ seq' = [last |-> NextVal(seq), called |-> TRUE]
  /\ lv' = [lv EXCEPT ![t].nextId = NextVal(seq)]
  /\ pc' = [pc EXCEPT ![t] = "ci_insert"]
  /\ UNCHANGED <<hist, load, staff, alone, MAX_ALLOWED, tokens, advLock, rowLock, clock, req, now, wr, resp,
                 emitted>>

CheckinNextval(t) == Nextval(t) /\ UNCHANGED issued

\* The same two steps with the observer noting the call: the transaction (by its
\* start tick), whether its first count found the table empty, and the
\* transactions in flight beside it.
IssuedEntry(t, op, id) ==
  [op |-> op, id |-> id, txn |-> now[t], empty |-> lv[t].initialCount = 0,
   beside |-> {now[u] : u \in {v \in Clients \ {t} : pc[v] # "idle"}}]

CheckinSetvalObserved(t) ==
  Setval(t) /\ issued' = Append(issued, IssuedEntry(t, "setval", 0))

CheckinNextvalObserved(t) ==
  Nextval(t) /\ issued' = Append(issued, IssuedEntry(t, "nextval", NextVal(seq)))

\* INSERT INTO tokens (id, token, ..., status) VALUES ($1, $2, ..., 'waiting'): a
\* duplicate key throws; an uncommitted duplicate makes the statement wait.
CheckinInsert(t) ==
  /\ At(t, "ci_insert")
  /\ LET i == lv[t].nextId
     IN /\ \A u \in Clients \ {t} : wr[u][i] = NoWrite
        /\ IF tokens[i].status # "none"
           THEN /\ pc' = [pc EXCEPT ![t] = "catch"]
                /\ UNCHANGED <<wr, rowLock>>
           ELSE /\ wr' = [wr EXCEPT ![t][i] =
                            [NewRow(i) EXCEPT !.token = formatToken(i)]]
                /\ rowLock' = [rowLock EXCEPT ![i] = t]
                /\ pc' = [pc EXCEPT ![t] = "commit"]
  /\ UNCHANGED <<hist, issued, load, staff, alone, MAX_ALLOWED, tokens, seq, advLock, clock, req, now, lv, resp, emitted>>

\* ------------------------------------------------------------------ the handler returns
\* finally { client.release() }: the request is over and its locals are gone.
Released(t) ==
  /\ pc[t] = "done"
  /\ pc' = [pc EXCEPT ![t] = "idle"]
  /\ req' = [req EXCEPT ![t] = NoRequest]
  /\ now' = [now EXCEPT ![t] = 0]
  /\ lv' = [lv EXCEPT ![t] = LvInit]
  /\ resp' = [resp EXCEPT ![t] = NoResp]
  /\ emitted' = [emitted EXCEPT ![t] = <<>>]
  /\ alone' = [alone EXCEPT ![t] = TRUE]
  /\ UNCHANGED <<MAX_ALLOWED, tokens, seq, advLock, rowLock, clock, wr, load, staff>>

Finish(t) == Released(t) /\ UNCHANGED <<hist, issued>>

\* The tokens of the patient-finished events among evs, in order.
FinishedTokens(evs) ==
  LET f == SelectSeq(evs, LAMBDA e : e.ev = "patient-finished")
  IN [k \in 1..Len(f) |-> f[k].token]

\* The same step with the observer noting the request and its outcome.
HistEntry(t) ==
  [kind |-> req[t].kind, tok |-> lv[t].tok, seen |-> lv[t].seen, code |-> resp[t].code,
   evicted |-> IF req[t].kind = "next" THEN lv[t].finishedTokens ELSE lv[t].tokensFinished,
   began |-> now[t], alone |-> alone[t], finished |-> FinishedTokens(emitted[t])]

FinishObserved(t) == Released(t) /\ hist' = Append(hist, HistEntry(t)) /\ UNCHANGED issued

\* ------------------------------------------------------------------ specifications
Requests == AdmitRequests \cup RemoveRequests \cup NextRequests \cup CheckinRequests

Next ==
  \E t \in Clients :
    \/ \E r \in Requests : Begin(t, r)
    \/ \E r \in Requests : NextRejected(t, r)
    \/ SpaSelect(t)
    \/ MakeRoomCount(t)
    \/ MakeRoomEvict(t)
    \/ MakeRoomEvictBlocked(t)
    \/ MakeRoomEvictResume(t)
    \/ SpaUpdate(t)
    \/ NotFoundRollback(t)
    \/ Snapshot(t)
    \/ Commit(t)
    \/ RemoveSelect(t)
    \/ RemoveUpdate(t)
    \/ NextSelect(t)
    \/ NextEmpty(t)
    \/ CheckinCount(t)
    \/ CheckinAdvisoryLock(t)
    \/ CheckinConfirm(t)
    \/ CheckinSetval(t)
    \/ CheckinNextval(t)
    \/ CheckinInsert(t)
    \/ StatementFails(t)
    \/ Catch(t)
    \/ Finish(t)

\* Concurrent requests, one per pool client.
Spec == Init /\ [][Next]_vars

\* Requests served one at a time: each transaction ends before the next begins.
\* No statement ever waits, and the observer keeps the history.
NextSerial ==
  \E t \in {1} :
    \/ \E r \in Requests : Begin(t, r)
    \/ \E r \in Requests : NextRejected(t, r)
    \/ SpaSelect(t)
    \/ MakeRoomCount(t)
    \/ MakeRoomEvict(t)
    \/ SpaUpdate(t)
    \/ NotFoundRollback(t)
    \/ Snapshot(t)
    \/ Commit(t)
    \/ RemoveSelect(t)
    \/ RemoveUpdate(t)
    \/ NextSelect(t)
    \/ NextEmpty(t)
    \/ CheckinCount(t)
    \/ CheckinAdvisoryLock(t)
    \/ CheckinConfirm(t)
    \/ CheckinSetval(t)
    \/ CheckinNextval(t)
    \/ CheckinInsert(t)
    \/ StatementFails(t)
    \/ FinishObserved(t)

SpecSerial == Init /\ [][NextSerial]_vars

\* Check-ins only, concurrent, with the observer keeping the sequence's calls.
NextCheckin ==
  \E t \in Clients :
    \/ \E r \in CheckinRequests : Begin(t, r)
    \/ CheckinCount(t)
    \/ CheckinAdvisoryLock(t)
    \/ CheckinConfirm(t)
    \/ CheckinSetvalObserved(t)
    \/ CheckinNextvalObserved(t)
    \/ CheckinInsert(t)
    \/ Commit(t)
    \/ StatementFails(t)
    \/ Finish(t)

SpecCheckin == Init /\ [][NextCheckin]_vars

\* Concurrent admits and removes, with the observer keeping the history.
NextPair ==
  \E t \in Clients :
    \/ \E r \in AdmitRequests \cup RemoveRequests : Begin(t, r)
    \/ SpaSelect(t)
    \/ MakeRoomCount(t)
    \/ MakeRoomEvict(t)
    \/ MakeRoomEvictBlocked(t)
    \/ MakeRoomEvictResume(t)
    \/ SpaUpdate(t)
    \/ NotFoundRollback(t)
    \/ Snapshot(t)
    \/ Commit(t)
    \/ RemoveSelect(t)
    \/ RemoveUpdate(t)
    \/ StatementFails(t)
    \/ FinishObserved(t)

SpecPair == Init /\ [][NextPair]_vars

\* Concurrent requests where io.emit may throw.
NextNotify ==
  \E t \in Clients :
    \/ \E r \in Requests : Begin(t, r)
    \/ \E r \in Requests : NextRejected(t, r)
    \/ SpaSelect(t)
    \/ MakeRoomCount(t)
    \/ MakeRoomEvict(t)
    \/ MakeRoomEvictBlocked(t)
    \/ MakeRoomEvictResume(t)
    \/ SpaUpdate(t)
    \/ NotFoundRollback(t)
    \/ Snapshot(t)
    \/ Commit(t)
    \/ RemoveSelect(t)
    \/ RemoveUpdate(t)
    \/ NextSelect(t)
    \/ NextEmpty(t)
    \/ CheckinCount(t)
    \/ CheckinAdvisoryLock(t)
    \/ CheckinConfirm(t)
    \/ CheckinSetval(t)
    \/ CheckinNextval(t)
    \/ CheckinInsert(t)
    \/ StatementFails(t)
    \/ Catch(t)
    \/ CommitEmitFails(t)
    \/ EmitCatch(t)
    \/ Finish(t)

SpecNotify == Init /\ [][NextNotify]_vars


\* ------------------------------------------------------------------ load tester
\* The server's variables, which the load tester and requireStaff never touch.
serverVars == <<MAX_ALLOWED, tokens, seq, advLock, rowLock, clock, pc, req, now, wr,
                lv, resp, emitted, alone, hist, issued>>

\* A server that holds nothing and serves nothing.
ServerIdle == InitServer /\ MAX_ALLOWED = 1 /\ InitStore(0)

\* runLoadTest(config) has set its counters to zero and calls pump().
\* flying: requests whose makeRequest promise is pending; counted: requests
\* whose .then callback ran and whose .finally callback is queued.
Started(totalRequests, concurrency) ==
  [mode |-> "pump", totalRequests |-> totalRequests, concurrency |-> concurrency,
   launched |-> 0, inFlight |-> 0, flying |-> 0, counted |-> 0,
   successCount |-> 0, failureCount |-> 0, resolved |-> FALSE]

\* --requests and --concurrency: counts.
InitLoad ==
  /\ ServerIdle
  /\ staff = NoStaff
  /\ \E totalRequests \in 0..MaxRequests, concurrency \in 0..MaxConcurrency :
       load = Started(totalRequests, concurrency)

\* while (inFlight < concurrency && launched < totalRequests)
PumpGuardNoConcurrency(l) == l.launched < l.totalRequests

PumpGuard(l) == l.inFlight < l.concurrency /\ l.launched < l.totalRequests

\* One iteration of pump's loop: launched += 1; inFlight += 1; makeRequest(...).
Launch ==
  /\ load.mode = "pump"
  /\ PumpGuard(load)
  /\ load' = [load EXCEPT !.launched = @ + 1, !.inFlight = @ + 1, !.flying = @ + 1]
  /\ UNCHANGED <<serverVars, staff>>

\* The loop's condition fails: pump returns and the event loop takes over.
PumpReturn ==
  /\ load.mode = "pump"
  /\ ~PumpGuard(load)
  /\ load' = [load EXCEPT !.mode = "await"]
  /\ UNCHANGED <<serverVars, staff>>

\* A request settles (makeRequest never rejects) and its .then callback counts it.
ThenCallback(success) ==
  /\ load.mode = "await"
  /\ load.flying > 0
  /\ load' = [load EXCEPT !.flying = @ - 1, !.counted = @ + 1,
                          !.successCount = IF success THEN @ + 1 ELSE @,
                          !.failureCount = IF success THEN @ ELSE @ + 1]
  /\ UNCHANGED <<serverVars, staff>>

\* if (launched === totalRequests && inFlight === 0), after inFlight -= 1
AllSettled(l) == l.launched = l.totalRequests /\ l.inFlight = 0

\* The .finally callback: inFlight -= 1, then resolve() or pump().
FinallyCallback ==
  /\ load.mode = "await"
  /\ load.counted > 0
  /\ LET l == [load EXCEPT !.counted = @ - 1, !.inFlight = @ - 1]
     IN load' = IF AllSettled(l) THEN [l EXCEPT !.resolved = TRUE]
                ELSE [l EXCEPT !.mode = "pump"]
  /\ UNCHANGED <<serverVars, staff>>

\* The awaited promise is resolved: runLoadTest goes on to its report.
Report ==
  /\ load.mode = "await"
  /\ load.resolved
  /\ load' = [load EXCEPT !.mode = "done"]
  /\ UNCHANGED <<serverVars, staff>>

NextLoad ==
  \/ Launch
  \/ PumpReturn
  \/ \E success \in BOOLEAN : ThenCallback(success)
  \/ FinallyCallback
  \/ Report

SpecLoad == InitLoad /\ [][NextLoad]_vars


\* ------------------------------------------------------------------ staff access
\* Strings are sequences of characters; these are the ones credentials are made of.
CredChars == {"u", "p", ":", " "}

\* The character's code unit, and the character of a decoded byte.
CharCode(c) ==
  CASE c = " " -> 32 [] c = ":" -> 58 [] c = "p" -> 112 [] c = "u" -> 117

CodeChar(n) ==
  CASE n = 32 -> " " [] n = 58 -> ":" [] n = 112 -> "p" [] n = 117 -> "u"
    [] OTHER -> "?"

Base64Alphabet ==
  <<"A", "B", "C", "D", "E", "F", "G", "H", "I", "J", "K", "L", "M", "N", "O", "P",
    "Q", "R", "S", "T", "U", "V", "W", "X", "Y", "Z", "a", "b", "c", "d", "e", "f",
    "g", "h", "i", "j", "k", "l", "m", "n", "o", "p", "q", "r", "s", "t", "u", "v",
    "w", "x", "y", "z", "0", "1", "2", "3", "4", "5", "6", "7", "8", "9", "+", "/">>

Base64Chars == {Base64Alphabet[k] : k \in 1..64}

Sextet(c) == (CHOOSE k \in 1..64 : Base64Alphabet[k] = c) - 1

\* What a client puts after "Basic ": the base64 form of the bytes of user:pass.
RECURSIVE Base64Encode(_)
Base64Encode(b) ==
  CASE Len(b) = 0 -> <<>>
    [] Len(b) = 1 ->
         LET n == b[1] * 16
         IN <<Base64Alphabet[(n \div 64) + 1], Base64Alphabet[(n % 64) + 1], "=", "=">>
    [] Len(b) = 2 ->
         LET n == (b[1] * 256 + b[2]) * 4
         IN <<Base64Alphabet[(n \div 4096) + 1], Base64Alphabet[((n \div 64) % 64) + 1],
              Base64Alphabet[(n % 64) + 1], "=">>
    [] OTHER ->
         LET n == b[1] * 65536 + b[2] * 256 + b[3]
         IN <<Base64Alphabet[(n \div 262144) + 1], Base64Alphabet[((n \div 4096) % 64) + 1],
              Base64Alphabet[((n \div 64) % 64) + 1], Base64Alphabet[(n % 64) + 1]>>
            \o Base64Encode(SubSeq(b, 4, Len(b)))

\* The bytes of a run of sextets: three per four, and one or two for a last
\* group of two or three.
RECURSIVE SextetBytes(_)
SextetBytes(x) ==
  CASE Len(x) <= 1 -> <<>>
    [] Len(x) = 2 -> <<(x[1] * 64 + x[2]) \div 16>>
    [] Len(x) = 3 ->
         LET n == x[1] * 4096 + x[2] * 64 + x[3]
         IN <<n \div 1024, (n \div 4) % 256>>
    [] OTHER ->
         LET n == x[1] * 262144 + x[2] * 4096 + x[3] * 64 + x[4]
         IN <<n \div 65536, (n \div 256) % 256, n % 256>>
            \o SextetBytes(SubSeq(x, 5, Len(x)))

\* The text before the first "=" of s.
RECURSIVE UntilPadding(_)
UntilPadding(s) ==
  IF s = <<>> \/ Head(s) = "=" THEN <<>> ELSE <<Head(s)>> \o UntilPadding(Tail(s))

\* Buffer.from(base64, 'base64').toString('utf8'): decoding ends at the padding,
\* characters outside the alphabet are skipped.
Base64Decode(s) ==
  LET digits == SelectSeq(UntilPadding(s), LAMBDA c : c \in Base64Chars)
      bytes == SextetBytes([k \in 1..Len(digits) |-> Sextet(digits[k])])
  IN [k \in 1..Len(bytes) |-> CodeChar(bytes[k])]

\* toLowerCase on the letters of a scheme name.
LowerChar(c) ==
  CASE c = "B" -> "b" [] c = "A" -> "a" [] c = "S" -> "s" [] c = "I" -> "i"
    [] c = "C" -> "c" [] c = "E" -> "e" [] c = "R" -> "r"
    [] OTHER -> c

StartsWith(s, prefix) ==
  Len(s) >= Len(prefix) /\ SubSeq(s, 1, Len(prefix)) = prefix

\* decoded.indexOf(':'), counted from 1; 0 when there is none.
IndexOfColon(s) ==
  IF \E k \in 1..Len(s) : s[k] = ":"
  THEN CHOOSE k \in 1..Len(s) : s[k] = ":" /\ \A j \in 1..(k - 1) : s[j] # ":"
  ELSE 0

NoCredentials == [found |-> FALSE, username |-> <<>>, password |-> <<>>]

\* decodeBasicAuth(authHeader); a request without the header has present = FALSE.
decodeBasicAuth(authHeader) ==
  IF ~authHeader.present \/ authHeader.text = <<>> THEN NoCredentials
  ELSE LET trimmed == TrimRight(TrimLeft(authHeader.text))
           lower == [k \in 1..Len(trimmed) |-> LowerChar(trimmed[k])]
       IN IF ~StartsWith(lower, <<"b", "a", "s", "i", "c", " ">>) THEN NoCredentials
          ELSE LET base64 == TrimRight(TrimLeft(SubSeq(trimmed, 7, Len(trimmed))))
               IN IF base64 = <<>> THEN NoCredentials
                  ELSE LET decoded == Base64Decode(base64)
                           separatorIndex == IndexOfColon(decoded)
                       IN IF separatorIndex = 0
                          THEN [found |-> TRUE, username |-> decoded, password |-> <<>>]
                          ELSE [found |-> TRUE,
                                username |-> SubSeq(decoded, 1, separatorIndex - 1),
                                password |-> SubSeq(decoded, separatorIndex + 1,
                                                    Len(decoded))]

\* Boolean(STAFF_USER && STAFF_PASS)
staffCredentialsConfigured(c) == c.STAFF_USER # <<>> /\ c.STAFF_PASS # <<>>

hasValidStaffAuthUserOnly(c, authHeader) ==
  /\ staffCredentialsConfigured(c)
  /\ decodeBasicAuth(authHeader).found
  /\ decodeBasicAuth(authHeader).username = c.STAFF_USER

hasValidStaffAuth(c, authHeader) ==
  /\ staffCredentialsConfigured(c)
  /\ decodeBasicAuth(authHeader).found
  /\ decodeBasicAuth(authHeader).username = c.STAFF_USER
  /\ decodeBasicAuth(authHeader).password = c.STAFF_PASS

\* The routes registered with requireStaff, and the one registered without it.
StaffRoutes == {"staff", "display", "patients", "allowed", "admit", "remove", "next"}

OpenRoutes == {"checkin"}

\* process.env.STAFF_USER and process.env.STAFF_PASS, <<>> when unset.
StaffUserEnv == {<<>>, <<" ">>, <<"u">>, <<" ", "u", " ">>}

StaffPassEnv == {<<>>, <<" ">>, <<"p">>, <<":", " ">>}

\* The user:pass strings clients encode.
Credentials == UNION {[1..n -> CredChars] : n \in 0..MaxCredLen}

Codes(s) == [k \in 1..Len(s) |-> CharCode(s[k])]

Scheme(name) ==
  CASE name = "Basic" -> <<"B", "a", "s", "i", "c", " ">>
    [] name = "basic" -> <<"b", "a", "s", "i", "c", " ">>
    [] name = "Bearer" -> <<"B", "e", "a", "r", "e", "r", " ">>

\* The Authorization headers of the requests: none, an empty one, a scheme with
\* nothing after it, and each scheme followed by encoded credentials, with or
\* without blanks around it.
AuthHeaders ==
  {[present |-> FALSE, text |-> <<>>], [present |-> TRUE, text |-> <<>>],
   [present |-> TRUE, text |-> Scheme("Basic")]}
    \cup {[present |-> TRUE, text |-> Scheme(n) \o Base64Encode(Codes(c))] :
            n \in {"Basic", "basic", "Bearer"}, c \in Credentials}
    \cup {[present |-> TRUE,
           text |-> <<" ">> \o Scheme("Basic") \o <<" ">> \o Base64Encode(Codes(c))
                      \o <<" ">>] : c \in Credentials}

\* The module has loaded: the constants are trimmed and warnIfStaffMissing() has
\* run once.  No request is being served.
StaffLoaded(user, pass) ==
  LET c == [STAFF_USER |-> TrimRight(TrimLeft(user)),
            STAFF_PASS |-> TrimRight(TrimLeft(pass))]
  IN [STAFF_USER |-> c.STAFF_USER, STAFF_PASS |-> c.STAFF_PASS,
      staffConfigWarned |-> ~staffCredentialsConfigured(c),
      route |-> "none", authorization |-> [present |-> FALSE, text |-> <<>>],
      status |-> 0, challenge |-> FALSE, next |-> FALSE]

InitStaff ==
  /\ ServerIdle
  /\ load = NoLoad
  /\ \E user \in StaffUserEnv, pass \in StaffPassEnv : staff = StaffLoaded(user, pass)

\* requireStaff(req, res, next) on a protected route.
requireStaff(route, authHeader) ==
  /\ staff.route = "none"
  /\ LET warned == staff.staffConfigWarned \/ ~staffCredentialsConfigured(staff)
         s == [staff EXCEPT !.route = route, !.authorization = authHeader,
                            !.staffConfigWarned = warned]
     IN staff' =
          IF ~staffCredentialsConfigured(staff) THEN [s EXCEPT !.status = 503]
          ELSE IF hasValidStaffAuth(staff, authHeader) THEN [s EXCEPT !.next = TRUE]
          ELSE [s EXCEPT !.status = 401, !.challenge = TRUE]
  /\ UNCHANGED <<serverVars, load>>

\* A route registered without requireStaff: the handler runs.
OpenRequest(route, authHeader) ==
  /\ staff.route = "none"
  /\ staff' = [staff EXCEPT !.route = route, !.authorization = authHeader,
                            !.next = TRUE]
  /\ UNCHANGED <<serverVars, load>>

\* The request is over.
StaffRequestEnds ==
  /\ staff.route # "none"
  /\ staff' = [staff EXCEPT !.route = "none",
                            !.authorization = [present |-> FALSE, text |-> <<>>],
                            !.status = 0, !.challenge = FALSE, !.next = FALSE]
  /\ UNCHANGED <<serverVars, load>>

NextStaff ==
  \/ \E route \in StaffRoutes, authHeader \in AuthHeaders : requireStaff(route, authHeader)
  \/ \E route \in OpenRoutes, authHeader \in AuthHeaders : OpenRequest(route, authHeader)
  \/ StaffRequestEnds

SpecStaff == InitStaff /\ [][NextStaff]_vars


\* ------------------------------------------------------------------ claims
Last(q) == q[Len(q)]

CommittedAllowed == {i \in Ids : tokens[i].status = "allowed"}

\* C1: with the requests served one at a time, every committed state holds at most
\* MAX_ALLOWED allowed rows.
C1_SerialCapacity == Cardinality(CommittedAllowed) <= MAX_ALLOWED

\* The allowed set is full and one row was evicted to keep it so.
C1_Witness ==
  /\ Cardinality(CommittedAllowed) = MAX_ALLOWED
  /\ \E i \in Ids : tokens[i].status = "done" /\ tokens[i].admitted_at # Null
  /\ \A t \in Clients : pc[t] = "idle"

\* C2: under concurrent admit / admitNext transactions the committed allowed rows
\* never number more than MAX_ALLOWED.
C2_ConcurrentCapacity == AllowedCount(tokens) <= MAX_ALLOWED

\* C3: from a store with nothing allowed, MAX_ALLOWED + 1 promotions of distinct
\* waiting rows in a row: the first MAX_ALLOWED evict nobody, the next one evicts
\* exactly the row promoted first, which is done while the newcomer is allowed.
Promotion(e) == e.kind = "admit" /\ e.code = 200 /\ e.seen = "waiting"

PromotionsOnly(n) ==
  /\ Len(hist) >= n
  /\ \A k \in 1..n : Promotion(hist[k])
  /\ \A k, m \in 1..n : k # m => hist[k].tok # hist[m].tok

RowOf(tok) == CHOOSE i \in Ids : tokens[i].token = tok

C3_Scenario ==
  PromotionsOnly(MAX_ALLOWED + 1) =>
    /\ \A k \in 1..MAX_ALLOWED : hist[k].evicted = <<>>
    /\ hist[MAX_ALLOWED + 1].evicted = <<hist[1].tok>>
    /\ (Len(hist) = MAX_ALLOWED + 1 /\ pc[1] = "idle") =>
         /\ tokens[RowOf(hist[1].tok)].status = "done"
         /\ tokens[RowOf(hist[MAX_ALLOWED + 1].tok)].status = "allowed"

\* MAX_ALLOWED = 2 and the three promotions were not made in id order.
C3_Witness ==
  /\ MAX_ALLOWED = 2
  /\ PromotionsOnly(3)
  /\ hist[1].tok = formatToken(2)

\* C4: the row the eviction statement takes is the first row the allowed snapshot
\* returns in the state the statement runs in, whether the statement evicts at once
\* or first waits for the row's lock.
Evicts(t) ==
  /\ pc[t] = "mr_evict"
  /\ Len(lv'[t].tokensFinished) = Len(lv[t].tokensFinished) + 1

Waits(t) == pc[t] = "mr_evict" /\ pc'[t] = "mr_wait"

Forward(a, b) ==
  CASE a = "none" -> b \in {"none", "waiting"}
    [] a = "waiting" -> b \in {"waiting", "allowed", "done"}
    [] a = "allowed" -> b \in {"allowed", "done"}
    [] a = "done" -> b = "done"

C5_OneDirection ==
  [][\A i \in Ids :
       /\ Forward(tokens[i].status, tokens'[i].status)
       /\ tokens[i].status # "none" => tokens'[i].id = tokens[i].id]_vars

\* One row went waiting -> allowed -> done and another waiting -> done.
C5_Witness ==
  /\ \E i \in Ids : tokens[i].status = "done" /\ tokens[i].admitted_at # Null
  /\ \E i \in Ids : tokens[i].status = "done" /\ tokens[i].admitted_at = Null
  /\ \E i \in Ids : tokens[i].status = "allowed"

\* C6: admit of a row that is already allowed answers 200 with the row as it is,
\* reports no eviction and commits no change at all.
Completes(t) == pc[t] \notin {"idle", "done"} /\ pc'[t] = "done"

FinishedIn(evs) == {k \in 1..Len(evs) : evs[k].ev = "patient-finished"}

C6_AdmitIdempotent ==
  [][\A t \in Clients :
       (Completes(t) /\ req[t].kind = "admit" /\ lv[t].seen = "allowed"
          /\ resp'[t].code # 500) =>
         /\ resp'[t].code = 200
         /\ resp'[t].patient = tokens[lv[t].patient]
         /\ lv[t].tokensFinished = <<>>
         /\ FinishedIn(emitted'[t]) = {}
         /\ tokens' = tokens]_vars

\* An admit found its row allowed and has answered 200.
C6_Witness ==
  \E t \in Clients :
    /\ pc[t] = "done" /\ req[t].kind = "admit"
    /\ lv[t].seen = "allowed" /\ resp[t].code = 200

\* C7: admit of an unknown token or of a done row answers 404, evicts nobody,
\* emits nothing and commits no change.
C7_AdmitNotFound ==
  [][\A t \in Clients :
       (req'[t].kind = "admit" /\ lv'[t].seen \in {"none", "done"}) =>
         /\ pc'[t] \in {"notfound", "done"}
         /\ wr'[t] = NoWrites
         /\ Completes(t) =>
              /\ resp'[t].code = 404
              /\ emitted'[t] = <<>>
              /\ tokens' = tokens]_vars

\* An admit found its row done and has answered 404.
C7_Witness ==
  \E t \in Clients :
    /\ pc[t] = "done" /\ req[t].kind = "admit"
    /\ lv[t].seen = "done" /\ resp[t].code = 404

\* C8: a promotion of a waiting row that ran with no other transaction beside it
\* leaves at most MAX_ALLOWED rows allowed once the row is set allowed, whatever
\* the count was before.
C8_PromoteRestoresCapacity ==
  \A t \in Clients :
    (pc[t] = "snapshot" /\ req[t].kind = "admit" /\ lv[t].seen = "waiting" /\ alone[t]) =>
      AllowedCount(View(t)) <= MAX_ALLOWED

\* C9: in admitNext a batch entry that turns out done or missing is skipped: the
\* handler does not throw on it.
C9_NotFoundSkipped ==
  \A t \in Clients :
    (req[t].kind = "next" /\ lv[t].seen \in {"none", "done"}) => pc[t] # "catch"

\* C10: a transaction that fails is rolled back: the committed table is what it
\* was, the write set is gone, the locks are free and nothing is emitted.
C10_FailureRollsBack ==
  [][\A t \in Clients :
       (Completes(t) /\ resp'[t].code = 500) =>
         /\ tokens' = tokens
         /\ wr'[t] = NoWrites
         /\ \A i \in Ids : rowLock'[i] # t
         /\ emitted'[t] = <<>>]_vars

\* A batch that had already evicted and promoted failed and was rolled back.
C10_Witness ==
  \E t \in Clients :
    /\ pc[t] = "done" /\ req[t].kind = "next"
    /\ resp[t].code = 500 /\ resp[t].rolledBack >= 2

\* C11: a committed admitNext(n), n >= 1, promotes the min(n, waiting) waiting rows
\* of smallest id, in ascending id order, in one transaction; it reports at most n
\* promoted and at most n evicted tokens, listed in the order they were evicted.
Min(a, b) == IF a < b THEN a ELSE b

\* The k smallest members of S.
Smallest(S, k) == {i \in S : Cardinality({j \in S : j < i}) < k}

NextCommits(t) ==
  /\ req[t].kind = "next" /\ pc[t] = "commit"
  /\ pc'[t] = "done" /\ resp'[t].code = 200

NextSelects(t) == pc[t] = "nx_select" /\ pc'[t] \in {"spa_select", "nx_empty"}

C11_AdmitNextBatch ==
  [][\A t \in Clients :
       /\ NextSelects(t) =>
            LET W == WaitingIds(View(t))
                S == Smallest(W, Min(Requested(req[t]), Cardinality(W)))
                b == lv'[t].batch
            IN /\ Len(b) = Cardinality(S)
               /\ \A i \in S : b[Cardinality({j \in S : j < i}) + 1] = formatToken(i)
       /\ NextCommits(t) =>
            LET n == Requested(req[t])
                W == WaitingIds(tokens)
                S == Smallest(W, Min(n, Cardinality(W)))
                p == lv[t].promoted
                f == lv[t].finishedTokens
            IN /\ resp'[t].admitted = Len(p)
               /\ Len(p) <= n
               /\ Len(f) <= n
               /\ \A a, b \in 1..Len(p) : a < b => p[a] < p[b]
               /\ alone[t] =>
                    /\ {p[a] : a \in 1..Len(p)} = S
                    /\ \A i \in S : /\ tokens'[i].admitted_at = now[t]
                                     /\ tokens'[i].status \in {"allowed", "done"}
                    /\ \A i \in Ids \ S :
                         \/ tokens'[i] = tokens[i]
                         \/ /\ tokens[i].status = "allowed"
                            /\ tokens'[i] = [tokens[i] EXCEPT !.status = "done",
                                                               !.finished_at = now[t]]
                    /\ \A a \in 1..Len(f) :
                         /\ tokens'[RowOf(f[a])].status = "done"
                         /\ tokens[RowOf(f[a])].status # "done"
                    /\ \A a, b \in 1..Len(f) :
                         a < b => Before(tokens'[RowOf(f[a])], tokens'[RowOf(f[b])])]_vars

\* A batch of two committed with one row allowed before it and capacity 1: it
\* evicted that row and then the row it had promoted first.
C11_Witness ==
  \E t \in Clients :
    /\ pc[t] = "done" /\ req[t].kind = "next" /\ resp[t].code = 200
    /\ alone[t]
    /\ lv[t].promoted = <<1, 2>>
    /\ lv[t].finishedTokens = <<formatToken(3), formatToken(1)>>

\* C12: admitNext(n) with n <= 0 is answered 400 before any transaction is opened:
\* no BEGIN, no row or lock touched, nothing emitted.
Arrives(t) == pc[t] = "idle" /\ pc'[t] # "idle"

C12_NonPositiveRejected ==
  [][\A t \in Clients :
       (Arrives(t) /\ req'[t].kind = "next" /\ Requested(req'[t]) <= 0) =>
         /\ pc'[t] = "done"
         /\ resp'[t].code = 400
         /\ emitted'[t] = <<>>
         /\ now' = now
         /\ UNCHANGED <<tokens, wr, rowLock, advLock, seq>>]_vars

\* { count: 0, num: 2 } was rejected while a row was allowed.
C12_Witness ==
  \E t \in Clients :
    /\ pc[t] = "done" /\ req[t].kind = "next" /\ resp[t].code = 400
    /\ req[t].count = <<0>> /\ req[t].num = <<2>>
    /\ CommittedAllowed # {}

\* C13: check-in transactions that run nextIdentity concurrently and all found the
\* table empty: they hold the advisory lock one at a time from the confirming count
\* on, at most one of them calls setval, and the ids they receive differ.
Concurrently(a, b) ==
  /\ a.txn # b.txn
  /\ a.empty /\ b.empty
  /\ (b.txn \in a.beside \/ a.txn \in b.beside)

UnderAdvisoryLock(t) ==
  /\ req[t].kind = "checkin"
  /\ lv[t].initialCount = 0
  /\ pc[t] \in {"ci_confirm", "ci_setval", "ci_nextval", "ci_insert", "commit"}

C13_ConcurrentFirstIdentities ==
  /\ \A t \in Clients : UnderAdvisoryLock(t) => advLock = t
  /\ \A a, b \in 1..Len(issued) :
       (a < b /\ Concurrently(issued[a], issued[b])) =>
         /\ ~(issued[a].op = "setval" /\ issued[b].op = "setval")
         /\ (issued[a].op = "nextval" /\ issued[b].op = "nextval") =>
              issued[a].id # issued[b].id

\* C14: every id nextIdentity returns is positive and greater than every id it
\* returned before, whether the transactions that took them committed or not.
Returned(a) == issued[a].op = "nextval"

C14_IdentitiesIncrease ==
  \A b \in 1..Len(issued) :
    Returned(b) =>
      /\ issued[b].id > 0
      /\ \A a \in 1..(b - 1) : Returned(a) => issued[a].id < issued[b].id

\* C15: remove of a waiting or allowed row sets it done and stamps finished_at,
\* leaves every other row as it was, and takes the row as wasAllowed exactly when
\* it was allowed just before.
RemoveCommits(t) ==
  /\ req[t].kind = "remove" /\ pc[t] = "commit"
  /\ pc'[t] = "done" /\ resp'[t].code = 200

Target(t) == Matching(tokens, normalizeToken(req[t].token))

C15_RemoveFrame ==
  [][\A t \in Clients :
       (RemoveCommits(t)
          /\ \E i \in Target(t) : tokens[i].status \in {"waiting", "allowed"}) =>
         /\ \A i \in Target(t) :
              /\ tokens'[i] = [tokens[i] EXCEPT !.status = "done", !.finished_at = now[t]]
              /\ now[t] # Null
              /\ lv[t].wasAllowed <=> tokens[i].status = "allowed"
         /\ \A j \in Ids \ Target(t) : tokens'[j] = tokens[j]]_vars

\* An allowed row was removed while another row stays allowed and a third waits.
C15_Witness ==
  \E t \in Clients :
    /\ pc[t] = "done" /\ req[t].kind = "remove" /\ resp[t].code = 200
    /\ lv[t].wasAllowed
    /\ tokens[lv[t].patient].status = "done"
    /\ CommittedAllowed # {}
    /\ WaitingIds(tokens) # {}

\* C16: remove of an unknown token or of a row that is already done fails with
\* NotFound and changes nothing: finished_at is not stamped again and no success
\* is reported.
C16_RemoveNotFound ==
  [][\A t \in Clients :
       (Completes(t) /\ req[t].kind = "remove" /\ resp'[t].code # 500
          /\ \A i \in Target(t) : tokens[i].status = "done") =>
         /\ resp'[t].code = 404
         /\ tokens' = tokens
         /\ emitted'[t] = <<>>]_vars

\* C17: a committed remove of a waiting row emits nothing; a committed remove of
\* an allowed row emits patient-finished with the row's token and then
\* allowed-update.
C17_RemoveNotifications ==
  [][\A t \in Clients :
       RemoveCommits(t) =>
         \A i \in Target(t) :
           /\ tokens[i].status = "waiting" => emitted'[t] = <<>>
           /\ tokens[i].status = "allowed" =>
                /\ Len(emitted'[t]) = 2
                /\ emitted'[t][1].ev = "patient-finished"
                /\ emitted'[t][1].token = tokens[i].token
                /\ emitted'[t][2].ev = "allowed-update"]_vars

\* A waiting row was removed, with no emit, while another row is allowed.
C17_Witness ==
  \E t \in Clients :
    /\ pc[t] = "done" /\ req[t].kind = "remove" /\ resp[t].code = 200
    /\ lv[t].seen = "waiting" /\ emitted[t] = <<>>
    /\ CommittedAllowed # {}

\* C18: admitted_at is null while a row has never been allowed, is written once,
\* by the statement that sets the row allowed, and is never cleared or overwritten
\* afterwards by admit, admitNext, an eviction or remove.
AdmittedAtMatchesStatus(row) ==
  /\ row.status \in {"none", "unwritten", "waiting"} => row.admitted_at = Null
  /\ row.status = "allowed" => row.admitted_at # Null

\* One statement's change of a row version.
WritesAdmittedAtOnce(old, new) ==
  /\ old.admitted_at # Null => new.admitted_at = old.admitted_at
  /\ old.status = "done" => new.admitted_at = old.admitted_at
  /\ (old.admitted_at = Null /\ new.admitted_at # Null) =>
       (old.status = "waiting" /\ new.status = "allowed")
  /\ (old.status = "waiting" /\ new.status = "allowed") => new.admitted_at # Null

\* A commit's change of a committed row: a batch may promote and evict a row in
\* one transaction.
KeepsAdmittedAt(old, new) ==
  /\ old.admitted_at # Null => new.admitted_at = old.admitted_at
  /\ old.status = "done" => new.admitted_at = old.admitted_at
  /\ (old.admitted_at = Null /\ new.admitted_at # Null) =>
       (old.status = "waiting" /\ new.status \in {"allowed", "done"})

C18_AdmittedAtOnce ==
  /\ [](\A i \in Ids :
          /\ AdmittedAtMatchesStatus(tokens[i])
          /\ \A t \in Clients : AdmittedAtMatchesStatus(wr[t][i]))
  /\ [][\A i \in Ids :
          /\ KeepsAdmittedAt(tokens[i], tokens'[i])
          /\ \A t \in Clients :
               (wr'[t][i] # wr[t][i] /\ wr'[t][i] # NoWrite) =>
                 WritesAdmittedAtOnce(View(t)[i], wr'[t][i])]_vars

\* An admit found its row allowed, admitted by an earlier transaction, and left
\* the row's admitted_at as it was.
C18_Witness ==
  \E t \in Clients :
    /\ pc[t] = "done" /\ req[t].kind = "admit"
    /\ lv[t].seen = "allowed" /\ resp[t].code = 200
    /\ tokens[lv[t].patient].admitted_at # Null
    /\ tokens[lv[t].patient].admitted_at < now[t]
    /\ \E j \in Ids : tokens[j].status = "done" /\ tokens[j].admitted_at # Null

\* C19: two concurrent operations on the same row are serialized by the row's
\* lock.  Of two concurrent admits of a waiting row exactly one promotes it, with at
\* most one eviction, and the other finds it allowed and evicts nobody; a concurrent
\* admit and remove leave what one of their two serial orders leaves.
AllIdle == \A t \in Clients : pc[t] = "idle"

\* The last two requests ran beside each other, every earlier one ran alone, both
\* named token tok and neither failed.
ConcurrentPair(a, b) ==
  /\ AllIdle
  /\ Len(hist) >= 2
  /\ a = hist[Len(hist) - 1] /\ b = hist[Len(hist)]
  /\ ~a.alone /\ ~b.alone
  /\ \A k \in 1..(Len(hist) - 2) : hist[k].alone
  /\ a.tok = b.tok
  /\ a.code # 500 /\ b.code # 500

TwoAdmits(first, second) ==
  (first.kind = "admit" /\ second.kind = "admit"
     /\ first.code = 200 /\ second.code = 200
     /\ (first.seen = "waiting" \/ second.seen = "waiting")) =>
    /\ first.seen = "waiting"
    /\ second.seen = "allowed"
    /\ second.evicted = <<>>
    /\ Len(first.evicted) <= 1
    /\ tokens[RowOf(first.tok)].status = "allowed"
    /\ tokens[RowOf(first.tok)].admitted_at = first.began

AdmitAndRemove(ad, rm) ==
  (ad.kind = "admit" /\ rm.kind = "remove") =>
    /\ rm.code = 404 => (ad.code = 404 /\ ad.seen = "none" /\ rm.seen = "none")
    /\ rm.code = 200 =>
         LET row == tokens[RowOf(rm.tok)]
         IN /\ row.status = "done"
            /\ row.finished_at = rm.began
            /\ \/ /\ ad.seen = "done" /\ ad.code = 404 /\ ad.evicted = <<>>
                  /\ row.admitted_at # ad.began
               \/ /\ ad.seen = "waiting" /\ ad.code = 200 /\ rm.seen = "allowed"
                  /\ row.admitted_at = ad.began
                  /\ Len(ad.evicted) <= 1
               \/ /\ ad.seen = "allowed" /\ ad.code = 200 /\ rm.seen = "allowed"
                  /\ row.admitted_at # Null /\ row.admitted_at < ad.began
                  /\ ad.evicted = <<>>

C19_SameRowSerialized ==
  \A a, b \in {hist[k] : k \in 1..Len(hist)} :
    ConcurrentPair(a, b) =>
      /\ TwoAdmits(a, b)
      /\ AdmitAndRemove(a, b)
      /\ AdmitAndRemove(b, a)

\* With capacity 1 and one row allowed, two concurrent admits of another row: the
\* first evicted the allowed row, the second found the row allowed.
C19_Witness ==
  /\ Len(hist) = 3
  /\ ConcurrentPair(hist[2], hist[3])
  /\ hist[2].kind = "admit" /\ hist[3].kind = "admit"
  /\ hist[2].code = 200 /\ hist[3].code = 200
  /\ hist[2].evicted = <<hist[1].tok>>
  /\ hist[3].seen = "allowed"

\* C20: a row created by check-in starts waiting with token T followed by its id
\* in decimal; no two rows share an id or a token; no operation changes the id or
\* the token of a row.
DigitValue(c) == CHOOSE d \in 0..9 : Digits[d + 1] = c

RECURSIVE ParseDecimal(_)
ParseDecimal(s) ==
  IF s = <<>> THEN 0
  ELSE ParseDecimal(SubSeq(s, 1, Len(s) - 1)) * 10 + DigitValue(s[Len(s)])

WellFormedToken(row) ==
  /\ Len(row.token) >= 2
  /\ Head(row.token) = "T"
  /\ \A k \in 2..Len(row.token) : \E d \in 0..9 : Digits[d + 1] = row.token[k]
  /\ row.token[2] = "0" => Len(row.token) = 2
  /\ ParseDecimal(Tail(row.token)) = row.id

Exists(row) == row.status \notin {"none", "unwritten"}

C20_TokenIdentity ==
  /\ [](\A i, j \in Ids :
          (Exists(tokens[i]) /\ Exists(tokens[j]) /\ i # j) =>
            /\ tokens[i].id # tokens[j].id
            /\ tokens[i].token # tokens[j].token)
  /\ [][\A i \in Ids :
          /\ (~Exists(tokens[i]) /\ Exists(tokens'[i])) =>
               /\ tokens'[i].status = "waiting"
               /\ tokens'[i].id = i
               /\ WellFormedToken(tokens'[i])
          /\ Exists(tokens[i]) =>
               /\ tokens'[i].id = tokens[i].id
               /\ tokens'[i].token = tokens[i].token
          /\ \A t \in Clients :
               (Exists(View(t)[i]) /\ Exists(wr'[t][i])) =>
                 /\ wr'[t][i].id = View(t)[i].id
                 /\ wr'[t][i].token = View(t)[i].token]_vars

\* A check-in has created row 2 as T2, waiting, after row 1 was set allowed.
C20_Witness ==
  \E t \in Clients :
    /\ pc[t] = "done" /\ req[t].kind = "checkin" /\ resp[t].code = 200
    /\ resp[t].patient = [id |-> 2, token |-> <<"T", "2">>, status |-> "waiting",
                           admitted_at |-> Null, finished_at |-> Null]
    /\ tokens[2] = resp[t].patient
    /\ tokens[1].status = "allowed"

\* C21: notifications are emitted only once the transaction has committed, never
\* for a transaction that is rolled back, and an emit that throws does not undo
\* what was committed.
Emits(t) == emitted'[t] # emitted[t] /\ emitted'[t] # <<>>

C21_EmitAfterCommit ==
  [][\A t \in Clients :
       /\ Emits(t) =>
            /\ pc[t] = "commit"
            /\ tokens' = View(t)
            /\ wr'[t] = NoWrites
            /\ \A i \in Ids : rowLock'[i] # t
       /\ (Completes(t) /\ pc[t] \notin {"commit", "emit_catch"}) =>
            (emitted'[t] = <<>> /\ tokens' = tokens)
       /\ (Completes(t) /\ pc[t] = "commit" /\ resp'[t].code = 500) =>
            (emitted'[t] = <<>> /\ tokens' = tokens)
       /\ pc'[t] = "emit_catch" => (pc[t] = "emit_catch" \/ tokens' = View(t))
       /\ (pc[t] = "emit_catch" /\ pc'[t] # "emit_catch") =>
            /\ tokens' = tokens
            /\ emitted'[t] = emitted[t]
            /\ resp'[t].code = 500]_vars

\* An admit committed an eviction, emitted patient-finished, then an emit threw:
\* the request answered 500 and the evicted row is still done.
C21_Witness ==
  \E t \in Clients :
    /\ pc[t] = "done" /\ req[t].kind = "admit" /\ resp[t].code = 500
    /\ Len(emitted[t]) = 1
    /\ emitted[t][1].ev = "patient-finished"
    /\ tokens[RowOf(emitted[t][1].token)].status = "done"
    /\ tokens[lv[t].patient].status = "allowed"

\* C22: the allowed snapshot reads only; it returns at most MAX_ALLOWED rows, all
\* allowed, ordered by admitted_at ascending with nulls first and then by id, and
\* every allowed row when these number at most MAX_ALLOWED.
InSnapshotOrder(x, y) ==
  \/ x.admitted_at = Null /\ y.admitted_at # Null
  \/ x.admitted_at # Null /\ y.admitted_at # Null /\ x.admitted_at < y.admitted_at
  \/ x.admitted_at = y.admitted_at /\ x.id < y.id

IsAllowedSnapshot(rows, view) ==
  /\ Len(rows) <= MAX_ALLOWED
  /\ \A k \in 1..Len(rows) :
       /\ rows[k].status = "allowed"
       /\ rows[k].id \in Ids
       /\ rows[k] = view[rows[k].id]
  /\ \A k, m \in 1..Len(rows) : k < m => InSnapshotOrder(rows[k], rows[m])
  /\ \A i \in Ids :
       (view[i].status = "allowed" /\ \A k \in 1..Len(rows) : rows[k].id # i) =>
         /\ Len(rows) = MAX_ALLOWED
         /\ InSnapshotOrder(rows[Len(rows)], view[i])

TakesSnapshot(t) == pc[t] = "snapshot" /\ pc'[t] = "commit"

C22_AllowedSnapshot ==
  /\ [](IsAllowedSnapshot(getAllowedPatients(tokens), tokens))
  /\ [][\A t \in Clients :
          TakesSnapshot(t) =>
            /\ IsAllowedSnapshot(lv'[t].allowed, View(t))
            /\ UNCHANGED <<tokens, wr, rowLock, advLock, seq>>]_vars

\* A snapshot of two rows whose order of admission is not their order of id.
C22_Witness ==
  \E t \in Clients :
    /\ pc[t] = "commit"
    /\ Len(lv[t].allowed) = 2
    /\ lv[t].allowed[1].id > lv[t].allowed[2].id


Quiescent == load.mode = "await" /\ load.flying = 0 /\ load.counted = 0

\* C24: for every non-negative totalRequests and positive concurrency, with every
\* request settling, runLoadTest completes: it never comes to rest with the pump
\* promise unresolved, and at completion totalRequests requests were launched, none
\* is in flight and successCount + failureCount = totalRequests.
C24_LoadTestCompletes ==
  (load.mode # "off" /\ load.concurrency >= 1) =>
    /\ Quiescent => load.resolved
    /\ load.resolved =>
         /\ load.launched = load.totalRequests
         /\ load.inFlight = 0
         /\ load.successCount + load.failureCount = load.totalRequests

\* The eviction UPDATE of client t takes effect in this step, at once or after
\* waiting for the row's lock.
EvictionActs(t) ==
  /\ pc[t] \in {"mr_evict", "mr_wait"}
  /\ Len(lv'[t].tokensFinished) = Len(lv[t].tokensFinished) + 1

\* The patient-finished events sent for token tok by the requests served so far.
Reports(tok) ==
  {e \in (1..Len(hist)) \X (1..MaxId) :
     /\ e[2] <= Len(hist[e[1]].finished)
     /\ hist[e[1]].finished[e[2]] = tok}

\* C25: eviction only acts on an entity that is allowed when it is evicted (the
\* latest version of its row, as the evicting transaction reads it, has status
\* allowed just before the UPDATE takes effect), under every interleaving of
\* admit, admitNext and remove; and no token is reported patient-finished more
\* than once.
C25_EvictsAllowedOnce ==
  /\ [](\A i \in Ids : tokens[i].status # "none" =>
          Cardinality(Reports(tokens[i].token)) <= 1)
  /\ [][\A t \in Clients :
          EvictionActs(t) =>
            View(t)[RowOf(Last(lv'[t].tokensFinished))].status = "allowed"]_vars

\* The row whose lock client t's pending statement needs: the target of its
\* SELECT ... FOR UPDATE, or the row its eviction UPDATE waits for; 0 if none.
NeededRow(t) ==
  CASE pc[t] = "spa_select" ->
         LET m == Matching(View(t), normalizeToken(SpaToken(t)))
         IN IF m = {} THEN 0 ELSE CHOOSE j \in m : TRUE
    [] pc[t] = "rm_select" ->
         LET m == Matching(View(t), normalizeToken(req[t].token))
         IN IF m = {} THEN 0 ELSE CHOOSE j \in m : TRUE
    [] pc[t] = "mr_wait" -> lv[t].target
    [] OTHER -> 0

\* The client that holds the lock client t waits for; 0 if t is not waiting.
WaitsFor(t) ==
  IF NeededRow(t) = 0 \/ rowLock[NeededRow(t)] = t THEN 0 ELSE rowLock[NeededRow(t)]

\* A set of transactions each waiting for a row lock held by another of the set.
Deadlocked == \E S \in SUBSET Clients : S # {} /\ \A t \in S : WaitsFor(t) \in S

\* C26: no interleaving of concurrent admit, remove and admitNext transactions
\* reaches a deadlock, a state in which a set of transactions each wait for a row
\* lock held by another of the set; so no started transaction has to be aborted
\* by the store.
C26_NoDeadlock == ~Deadlocked

\* C27: every entity counted in the promoted count of a committed admitNext(n) has
\* status allowed in the state committed by that operation, for every n >= 1 and
\* MAX_ALLOWED >= 1, n > MAX_ALLOWED included.
C27_PromotedAreAllowed ==
  [][\A t \in Clients :
       NextCommits(t) =>
         /\ resp'[t].admitted = Len(lv[t].promoted)
         /\ \A a \in 1..Len(lv[t].promoted) :
              tokens'[lv[t].promoted[a]].status = "allowed"]_vars

\* makeRoomFor's count statement of client t runs in this step.
Counts(t) == pc[t] = "mr_count" /\ pc'[t] \in {"spa_update", "mr_evict"}

AdmitCommits(t) ==
  /\ req[t].kind = "admit" /\ pc[t] = "commit"
  /\ pc'[t] = "done" /\ resp'[t].code = 200

\* C28: a promote of a waiting entity that finds the allowed count strictly below
\* MAX_ALLOWED evicts nobody: makeRoomFor goes straight to the promotion with an
\* empty evicted list and no write, and such a promote run with no transaction
\* beside it commits with the allowed count one higher and every other entity's
\* row as it was.  In every case one promote evicts at most one entity.
C28_PromoteBelowCapacity ==
  /\ [](\A t \in Clients : Len(lv[t].tokensFinished) <= 1)
  /\ [][\A t \in Clients :
          /\ (Counts(t) /\ AllowedCount(View(t)) < MAX_ALLOWED) =>
               /\ pc'[t] = "spa_update"
               /\ lv'[t].tokensFinished = <<>>
               /\ wr'[t] = wr[t]
          /\ (AdmitCommits(t) /\ alone[t] /\ lv[t].seen = "waiting"
                /\ AllowedCount(tokens) < MAX_ALLOWED) =>
               /\ lv[t].tokensFinished = <<>>
               /\ FinishedIn(emitted'[t]) = {}
               /\ AllowedCount(tokens') = AllowedCount(tokens) + 1
               /\ tokens'[lv[t].patient].status = "allowed"
               /\ \A j \in Ids \ {lv[t].patient} : tokens'[j] = tokens[j]]_vars

\* A waiting entity was promoted beside an allowed one, with room for both.
C28_Witness ==
  \E t \in Clients :
    /\ pc[t] = "done" /\ req[t].kind = "admit" /\ resp[t].code = 200
    /\ lv[t].seen = "waiting" /\ alone[t]
    /\ lv[t].tokensFinished = <<>>
    /\ MAX_ALLOWED = 2
    /\ AllowedCount(tokens) = 2

\* The operations the claim names: listActive, listAllowed, admit, remove, admitNext.
QueueRoutes == {"patients", "allowed", "admit", "remove", "next"}

\* Header h is a Basic header carrying exactly the configured user:pass.
ExactCredentials(c, h) ==
  LET t == TrimRight(TrimLeft(h.text))
  IN /\ h.present
     /\ Len(t) > 6
     /\ SubSeq(t, 1, 6) \in {Scheme("Basic"), Scheme("basic")}
     /\ TrimLeft(SubSeq(t, 7, Len(t)))
          = Base64Encode(Codes(c.STAFF_USER \o <<":">> \o c.STAFF_PASS))

\* C29: in the staff-protected variant a request to admit, remove, admitNext,
\* listActive or listAllowed reaches its handler only if STAFF_USER and STAFF_PASS
\* are both non-empty and the request carries Basic credentials equal to them
\* (user:pass); otherwise it is answered 503 (not configured) or 401 (bad or
\* missing credentials), and the store is left unchanged.
C29_StaffOnly ==
  [][(staff.route = "none" /\ staff'.route \in QueueRoutes) =>
       LET configured == staff.STAFF_USER # <<>> /\ staff.STAFF_PASS # <<>>
           exact == ExactCredentials(staff, staff'.authorization)
       IN /\ staff'.next => (configured /\ exact)
          /\ ~(configured /\ exact) =>
               /\ ~staff'.next
               /\ staff'.status = IF configured THEN 401 ELSE 503
               /\ UNCHANGED serverVars]_vars

\* A request with the right credentials reached its handler.
C29_Witness ==
  /\ staff.route \in QueueRoutes
  /\ staff.next
  /\ staff.STAFF_USER = <<"u">> /\ staff.STAFF_PASS = <<":">>

====
